---------------------------- MODULE Spec2Model ----------------------------
(***************************************************************************)
(* Production pipeline, publish queue and queue-drain scheduling of the    *)
(* YouTube automation agent.                                               *)
(*                                                                         *)
(*   agents/production-management-agent.js  ProductionManagementAgent      *)
(*   agents/publishing-scheduling-agent.js  PublishingSchedulingAgent      *)
(*   database/db.js                         Database                       *)
(*   schedules/daily-automation.js          DailyAutomation                *)
(*   index.js                               POST /publish/:contentId       *)
(*   index.js                               POST /generate                 *)
(*                                                                         *)
(* Time is counted in whole hours since Monday 00:00 of the first week.    *)
(* A JavaScript null/undefined is NULL where the value is a string, Nil     *)
(* where it is a number or a date, and NoAsset where it is an artifact.    *)
(***************************************************************************)
EXTENDS Integers, Sequences, FiniteSets, TLC

NULL == "null"
Nil  == -1

Min(a, b) == IF a <= b THEN a ELSE b

Range(s) == {s[i] : i \in 1..Len(s)}

VARIABLES
    \* ---- calculatePriority applied to one strategy
    prioIn,         \* the strategy handed to calculatePriority
    prioOut,        \* its result, Nil before the call
    \* ---- ProductionManagementAgent
    pipeline,       \* this.pipeline: the production items, in push order
    productions,    \* table productions of the Store: id -> row
    run,            \* the activation of processContent in progress
    \* ---- PublishingSchedulingAgent
    entries,        \* the schedule-entry objects ever created: id -> object
    publishQueue,   \* this.publishQueue: references (ids) to entry objects
    schedule,       \* table publish_schedule of the Store: id -> row
    drains,         \* activations of processPublishQueue, one per firing slot
    manual,         \* the activation of a manual publishContent request
    requests,       \* operator requests made so far
    storeFaults,    \* Store calls of the queue that were rejected so far
    \* ---- DailyAutomation
    settings,       \* table settings of the Store, the keys the gate reads
    gate,           \* the last answer of shouldGenerateContentToday
    automation,     \* this.isEnabled, and whether the cron tasks are started
    tasks,          \* activations of the cron callbacks, one per slot
    automationEvents, \* rows of automation_events, in insertion order
    \* ---- POST /generate
    generate,       \* the activation of generateContent
    \* ---- clock
    now             \* new Date(), in hours

vars == <<prioIn, prioOut, pipeline, productions, run,
          entries, publishQueue, schedule, drains, manual, requests,
          storeFaults, settings, gate, automation, tasks, automationEvents,
          generate, now>>

prioVars  == <<prioIn, prioOut>>
pipeVars  == <<pipeline, productions, run>>
queueVars == <<entries, publishQueue, schedule, drains, manual, requests,
               storeFaults>>
schedVars == <<settings, gate, automation, tasks, automationEvents, generate>>

(***************************************************************************)
(* calculatePriority                                                       *)
(***************************************************************************)
BasePriority == 50
MaxPriority  == 100

ViewsHigh == 100000
ViewsMid  == 50000
ViewsLow  == 10000

\* hoursUntilPublish = (new Date(bestPublishTime) - new Date()) / 3600000.
\* An absent bestPublishTime gives an Invalid Date and NaN, and every
\* comparison with NaN is false: isNaN says so, and the difference is then
\* not used.
hoursUntilPublish(strategy, t) == strategy.bestPublishTime - t

isNaN(strategy) == strategy.bestPublishTime = Nil

\* The body without the final Math.min.
calculatePriority_noClamp(strategy, t) ==
    LET v  == strategy.estimatedViews
        c  == strategy.competitorAnalysis
        h  == hoursUntilPublish(strategy, t)
        p0 == BasePriority
        p1 == IF v # Nil /\ v > ViewsHigh THEN p0 + 30
              ELSE IF v # Nil /\ v > ViewsMid THEN p0 + 20
              ELSE IF v # Nil /\ v > ViewsLow THEN p0 + 10
              ELSE p0
        p2 == IF c # Nil /\ c > 0 THEN p1 + 10 ELSE p1
        p3 == IF ~isNaN(strategy) /\ h < 24 THEN p2 + 20
              ELSE IF ~isNaN(strategy) /\ h < 48 THEN p2 + 10
              ELSE p2
    IN  p3

calculatePriority(strategy, t) ==
    LET v  == strategy.estimatedViews
        c  == strategy.competitorAnalysis
        h  == hoursUntilPublish(strategy, t)
        p0 == BasePriority
        p1 == IF v # Nil /\ v > ViewsHigh THEN p0 + 30
              ELSE IF v # Nil /\ v > ViewsMid THEN p0 + 20
              ELSE IF v # Nil /\ v > ViewsLow THEN p0 + 10
              ELSE p0
        p2 == IF c # Nil /\ c > 0 THEN p1 + 10 ELSE p1
        p3 == IF ~isNaN(strategy) /\ h < 24 THEN p2 + 20
              ELSE IF ~isNaN(strategy) /\ h < 48 THEN p2 + 10
              ELSE p2
    IN  Min(MaxPriority, p3)

\* calculatePublishTime: the strategy's time, else tomorrow 14:00.
calculatePublishTime(strategy, t) ==
    IF strategy.bestPublishTime # Nil THEN strategy.bestPublishTime
    ELSE ((t \div 24) + 1) * 24 + 14


\* The strategies handed to calculatePriority: estimatedViews around every
\* threshold, competitorAnalysis as its length, bestPublishTime as the hours
\* it lies after the call (the call is made at PrioNow).
PrioNow == 100

ViewSamples == {Nil, 0, ViewsLow, ViewsLow + 1, ViewsMid, ViewsMid + 1,
                ViewsHigh, ViewsHigh + 1, 200000, 10000000}

CompetitorSamples == {Nil, 0, 1, 3}

HoursAheadSamples == {-30, 0, 12, 23, 24, 25, 47, 48, 49, 500}

Strategies ==
    [estimatedViews : ViewSamples,
     competitorAnalysis : CompetitorSamples,
     bestPublishTime : {Nil} \cup {PrioNow + h : h \in HoursAheadSamples}]

(***************************************************************************)
(* ProductionManagementAgent.processContent                                *)
(***************************************************************************)
MaxRuns == 2        \* calls of processContent explored

Stages == {"script", "thumbnail", "video", "audio", "captions", "assembly"}

\* An artifact slot: null, or an object with the two flags the code writes.
Asset(gw, sim) == [present |-> TRUE, generatedWith |-> gw, simulated |-> sim]

NoAsset == [present |-> FALSE, generatedWith |-> NULL, simulated |-> FALSE]

NoStrategy == [estimatedViews |-> Nil, competitorAnalysis |-> Nil,
               bestPublishTime |-> Nil]

\* The strategies of the pipeline runs: a near target with many views and
\* competitor data, and a strategy with none of the three fields.
PipelineStrategies ==
    { [estimatedViews |-> 200000, competitorAnalysis |-> 2, bestPublishTime |-> 12],
      NoStrategy }

\* What the environment did to each step of the activation so far.
Steps == Stages \cup {"save", "update"}

NoEnv == [s \in Steps |-> "none"]

IdleRun == [pc |-> "idle", n |-> 0, item |-> 0, strategy |-> NoStrategy,
            script |-> NoAsset, env |-> NoEnv]

Ended(r) == r.pc \in {"idle", "returned", "threw"}

\* The activation throws: the catch of processContent logs and rethrows.
Throw(stage, o) ==
    run' = [run EXCEPT !.pc = "threw", !.env[stage] = o]

\* processContent is called (by runDailyContentGeneration or generateContent).
StartProcess(strategy) ==
    /\ Ended(run)
    /\ run.n < MaxRuns
    /\ run' = [pc |-> "script", n |-> run.n + 1, item |-> 0,
               strategy |-> strategy, script |-> NoAsset, env |-> NoEnv]
    /\ UNCHANGED <<pipeline, productions, now>>
    /\ UNCHANGED <<prioVars, schedVars, queueVars>>

\* processScript: two fs.writeFile calls, no try/catch.
ProcessScript(o) ==
    /\ run.pc = "script"
    /\ now' = now + 1
    /\ IF o = "ok"
       THEN run' = [run EXCEPT !.pc = "thumbnail", !.env["script"] = o,
                               !.script = Asset(NULL, FALSE)]
       ELSE Throw("script", o)
    /\ UNCHANGED <<pipeline, productions>>
    /\ UNCHANGED <<prioVars, schedVars, queueVars>>

\* processThumbnail, then the productionData literal and this.pipeline.push.
\*   real     generateThumbnail's image call succeeded
\*   genSim   the image call failed (or no key): generateThumbnail returned
\*            simulateThumbnailGeneration's {simulated: true}; processThumbnail
\*            copies path, dimensions and fileSize only
\*   fallback generateThumbnail threw: the catch of processThumbnail wrote
\*            the copy or the .placeholder file
\*   throw    the write in that catch failed too
thumbnailAsset(o) ==
    IF o \in {"real", "genSim"} THEN Asset("AI", FALSE) ELSE Asset(NULL, FALSE)

ProcessThumbnail(o) ==
    /\ run.pc = "thumbnail"
    /\ now' = now + 1
    /\ IF o = "throw"
       THEN /\ Throw("thumbnail", o)
            /\ UNCHANGED pipeline
       ELSE LET id == Len(pipeline) + 1
                productionData ==
                  [id |-> id,
                   status |-> "processing",
                   assets |-> [script |-> run.script,
                               thumbnail |-> thumbnailAsset(o),
                               audio |-> NoAsset, video |-> NoAsset,
                               captions |-> NoAsset, finalVideo |-> NoAsset],
                   timeline |-> [created |-> now', scriptReady |-> now',
                                 thumbnailReady |-> now',
                                 audioGenerated |-> Nil,
                                 videoGenerated |-> Nil,
                                 captionsGenerated |-> Nil,
                                 readyForUpload |-> Nil],
                   scheduledPublishTime |-> calculatePublishTime(run.strategy, now'),
                   priority |-> calculatePriority(run.strategy, now')]
            IN  /\ pipeline' = Append(pipeline, productionData)
                /\ run' = [run EXCEPT !.pc = "save", !.item = id,
                                      !.env["thumbnail"] = o]
    /\ UNCHANGED productions
    /\ UNCHANGED <<prioVars, schedVars, queueVars>>

\* The row db.saveProductionData inserts and db.updateProductionData rewrites.
productionRow(p) ==
    [status |-> p.status, assets |-> p.assets, timeline |-> p.timeline,
     scheduled_publish_time |-> p.scheduledPublishTime, priority |-> p.priority]

\* INSERT INTO productions: a row per id (id is the PRIMARY KEY).
saveProductionData(table, p) == (p.id :> productionRow(p)) @@ table

\* UPDATE productions ... WHERE id = ?: rewrites the row if there is one.
updateProductionData(table, p) ==
    IF p.id \in DOMAIN table THEN [table EXCEPT ![p.id] = productionRow(p)]
    ELSE table

\* await this.db.saveProductionData(productionData)
SaveProduction(o) ==
    /\ run.pc = "save"
    /\ now' = now + 1
    /\ IF o = "ok"
       THEN /\ productions' = saveProductionData(productions, pipeline[run.item])
            /\ run' = [run EXCEPT !.pc = "video", !.env["save"] = o]
       ELSE /\ Throw("save", o)
            /\ UNCHANGED productions
    /\ UNCHANGED pipeline
    /\ UNCHANGED <<prioVars, schedVars, queueVars>>

\* generateVideoContent.
\*   real     every generateVisualAssets call produced images
\*   genSim   the image calls failed: generateVisualAssets returned
\*            simulateVisualAssets' .info paths, and the try block goes on
\*   fallback generateVisualAssets threw: the catch returns
\*            createVideoElements, which writes nothing on productionData
generateVideoContent(p, o, t) ==
    IF o \in {"real", "genSim"}
    THEN [p EXCEPT !.assets.video = Asset("AI", FALSE),
                   !.timeline.videoGenerated = t]
    ELSE p

GenerateVideoContent(o) ==
    /\ run.pc = "video"
    /\ now' = now + 1
    /\ pipeline' = [pipeline EXCEPT
                      ![run.item] = generateVideoContent(@, o, now')]
    /\ run' = [run EXCEPT !.pc = "audio", !.env["video"] = o]
    /\ UNCHANGED productions
    /\ UNCHANGED <<prioVars, schedVars, queueVars>>

\* The catch of generateAudioNarration: simulateAudioGeneration.
simulateAudioGeneration(p) ==
    [p EXCEPT !.assets.audio = Asset(NULL, TRUE)]

\* generateAudioNarration.
\*   real     generateTTSAudio produced the audio
\*   genSim   no TTS key: generateTTSAudio returned simulateTTSGeneration's
\*            .info path without throwing, and the try block goes on
\*   fallback readFile or generateTTSAudio threw: simulateAudioGeneration
\*   throw    the write of simulateAudioGeneration failed too
generateAudioNarration(p, o, t) ==
    IF o \in {"real", "genSim"}
    THEN [p EXCEPT !.assets.audio = Asset("AI", FALSE),
                   !.timeline.audioGenerated = t]
    ELSE simulateAudioGeneration(p)

GenerateAudioNarration(o) ==
    /\ run.pc = "audio"
    /\ now' = now + 1
    /\ IF o = "throw"
       THEN /\ Throw("audio", o)
            /\ UNCHANGED pipeline
       ELSE /\ pipeline' = [pipeline EXCEPT
                              ![run.item] = generateAudioNarration(@, o, now')]
            /\ run' = [run EXCEPT !.pc = "captions", !.env["audio"] = o]
    /\ UNCHANGED productions
    /\ UNCHANGED <<prioVars, schedVars, queueVars>>

\* generateCaptions: fs.mkdir and fs.writeFile, no try/catch.
generateCaptions(p, t) ==
    [p EXCEPT !.assets.captions = Asset(NULL, FALSE),
              !.timeline.captionsGenerated = t]

GenerateCaptions(o) ==
    /\ run.pc = "captions"
    /\ now' = now + 1
    /\ IF o = "ok"
       THEN /\ pipeline' = [pipeline EXCEPT
                              ![run.item] = generateCaptions(@, now')]
            /\ run' = [run EXCEPT !.pc = "assembly", !.env["captions"] = o]
       ELSE /\ Throw("captions", o)
            /\ UNCHANGED pipeline
    /\ UNCHANGED productions
    /\ UNCHANGED <<prioVars, schedVars, queueVars>>

\* assembleVideo.
\*   real     generateVideo rendered the file and fs.stat found it; it reads
\*            assets.video.visualAssets, a TypeError when assets.video is null
\*   fallback the try block threw: simulateVideoAssembly
\*   throw    the write of simulateVideoAssembly failed too
assembleVideo(p, o) ==
    IF o = "real"
    THEN [p EXCEPT !.assets.finalVideo = Asset("AI", FALSE)]
    ELSE [p EXCEPT !.assets.finalVideo = Asset(NULL, TRUE)]

\* The ready transition stamping every entry of the timeline afresh.
markReady_restamp(p, t) ==
    [p EXCEPT !.status = "ready",
              !.timeline = [m \in DOMAIN p.timeline |-> t]]

\* "Mark as ready": the two assignments that follow assembleVideo.
markReady(p, t) ==
    [p EXCEPT !.status = "ready", !.timeline.readyForUpload = t]

AssembleVideo(o) ==
    /\ run.pc = "assembly"
    /\ o = "real" => pipeline[run.item].assets.video.present
    /\ now' = now + 1
    /\ IF o = "throw"
       THEN /\ Throw("assembly", o)
            /\ UNCHANGED pipeline
       ELSE /\ pipeline' = [pipeline EXCEPT
                              ![run.item] = markReady(assembleVideo(@, o), now')]
            /\ run' = [run EXCEPT !.pc = "update", !.env["assembly"] = o]
    /\ UNCHANGED productions
    /\ UNCHANGED <<prioVars, schedVars, queueVars>>

\* await this.db.updateProductionData(productionData); return productionData
UpdateProduction(o) ==
    /\ run.pc = "update"
    /\ now' = now + 1
    /\ IF o = "ok"
       THEN /\ productions' = updateProductionData(productions, pipeline[run.item])
            /\ run' = [run EXCEPT !.pc = "returned", !.env["update"] = o]
       ELSE /\ Throw("update", o)
            /\ UNCHANGED productions
    /\ UNCHANGED pipeline
    /\ UNCHANGED <<prioVars, schedVars, queueVars>>


(***************************************************************************)
(* PublishingSchedulingAgent and the publish_schedule table                *)
(***************************************************************************)
MaxEntries == 2     \* calls of scheduleContent explored
MaxDrains  == 1     \* firings of the queue-drain task that may overlap
MaxRequests == 1    \* operator requests explored (publish, emergency publish,
                    \* pause, resume, optimize)
MaxStoreFaults == 1 \* Store calls of the queue that may be rejected
MaxOrderEntries == 3 \* calls of scheduleContent explored by OrderSpec

\* db.generateId('schedule'): the id of the k-th entry created. Schedule ids
\* and production ids never coincide.
scheduleId(k) == 100 + k

EntryKeys == 1..Len(entries)

\* The production items offered to scheduleContent, written by the pipeline
\* operators above: two items that ran to 'ready' and share a publish time
\* (Tuesday 10:00), and one left in 'processing' by a run whose
\* generateCaptions threw.
newItem(id, time, priority) ==
    [id |-> id, status |-> "processing",
     assets |-> [script |-> Asset(NULL, FALSE), thumbnail |-> Asset("AI", FALSE),
                 audio |-> NoAsset, video |-> NoAsset,
                 captions |-> NoAsset, finalVideo |-> NoAsset],
     timeline |-> [created |-> 2, scriptReady |-> 2, thumbnailReady |-> 2,
                   audioGenerated |-> Nil, videoGenerated |-> Nil,
                   captionsGenerated |-> Nil, readyForUpload |-> Nil],
     scheduledPublishTime |-> time, priority |-> priority]

stuckItem(id, time, priority) ==
    generateAudioNarration(
        generateVideoContent(newItem(id, time, priority), "real", 4), "real", 5)

readyItem(id, time, priority) ==
    markReady(assembleVideo(generateCaptions(stuckItem(id, time, priority), 6),
                            "real"), 7)

QueueItems == <<readyItem(1, 34, 100), readyItem(2, 34, 50), stuckItem(3, 36, 50)>>

ProductionIds == {QueueItems[i].id : i \in 1..Len(QueueItems)}

\* publishQueue.find(e => e.productionId === contentId || e.id === contentId):
\* the first entry of the queue that matches, 0 when none does.
matches(es, k, contentId) ==
    es[k].productionId = contentId \/ scheduleId(k) = contentId

find(q, es, contentId) ==
    IF \E i \in 1..Len(q) : matches(es, q[i], contentId)
    THEN q[CHOOSE i \in 1..Len(q) :
               /\ matches(es, q[i], contentId)
               /\ \A j \in 1..(i - 1) : ~matches(es, q[j], contentId)]
    ELSE 0

\* A sort that is not stable: an entry goes before the entries of its time.
RECURSIVE insertSorted_unstable(_, _, _)
insertSorted_unstable(q, es, k) ==
    IF q = <<>> THEN <<k>>
    ELSE IF es[Head(q)].publishTime < es[k].publishTime
         THEN <<Head(q)>> \o insertSorted_unstable(Tail(q), es, k)
         ELSE <<k>> \o q

\* Array.prototype.sort with (a, b) => publishTime(a) - publishTime(b): a
\* stable sort of the whole array.
RECURSIVE insertSorted(_, _, _)
insertSorted(q, es, k) ==
    IF q = <<>> THEN <<k>>
    ELSE IF es[Head(q)].publishTime <= es[k].publishTime
         THEN <<Head(q)>> \o insertSorted(Tail(q), es, k)
         ELSE <<k>> \o q

RECURSIVE sortQueue(_, _)
sortQueue(q, es) ==
    IF q = <<>> THEN <<>>
    ELSE insertSorted(sortQueue(SubSeq(q, 1, Len(q) - 1), es), es, q[Len(q)])

\* The sort left out: the new entry stays where push put it.
sortQueue_none(q, es) == q

\* INSERT INTO publish_schedule.
scheduleRow(e) ==
    [production_id |-> e.productionId, publish_time |-> e.publishTime,
     status |-> e.status, priority |-> e.priority,
     youtube_id |-> NULL, published_at |-> Nil, error_message |-> NULL]

saveScheduleEntry(table, k, e) == (k :> scheduleRow(e)) @@ table

\* UPDATE publish_schedule SET status, youtube_id, youtube_url, published_at,
\* error_message WHERE id = ?
updateScheduleEntry(table, k, e) ==
    IF k \in DOMAIN table
    THEN [table EXCEPT ![k].status = e.status,
                       ![k].youtube_id = e.youtubeId,
                       ![k].published_at = e.publishedAt,
                       ![k].error_message = e.error]
    ELSE table

\* A Store call is made (made = TRUE) and resolves (db = "ok") or rejects.
StoreCall(made, db) ==
    /\ (made /\ db # "ok") => storeFaults < MaxStoreFaults
    /\ storeFaults' = IF made /\ db # "ok" THEN storeFaults + 1 ELSE storeFaults

\* A Store call that rejects leaves the table as it was.
storeUpdate(table, k, e, db) ==
    IF db = "ok" THEN updateScheduleEntry(table, k, e) ELSE table

\* scheduleContent(productionData): the entry is pushed and the queue sorted
\* before the Store is called; a rejected insert is logged and rethrown.
newEntry(p) ==
    [productionId |-> p.id, publishTime |-> p.scheduledPublishTime,
     status |-> "scheduled", priority |-> p.priority,
     youtubeId |-> NULL, publishedAt |-> Nil, error |-> NULL]

scheduleContentThrows(p, db) == db # "ok"

enqueue(p, db) ==
    /\ LET k == Len(entries) + 1
       IN  /\ entries' = Append(entries, newEntry(p))
           /\ publishQueue' = sortQueue(Append(publishQueue, k), entries')
           /\ schedule' = IF db = "ok"
                          THEN saveScheduleEntry(schedule, k, newEntry(p))
                          ELSE schedule
    /\ StoreCall(TRUE, db)
    /\ UNCHANGED <<prioVars, schedVars, pipeVars, drains, manual, requests, now>>

ScheduleContent(p, db) ==
    /\ Len(entries) < MaxEntries
    /\ enqueue(p, db)

\* ---- processPublishQueue
IdleDrain == [pc |-> "idle", now |-> 0, ready |-> <<>>, i |-> 0, target |-> 0,
              dbOk |-> TRUE, log |-> <<>>, ret |-> Nil]

\* readyToPublish: the queue entries that are due and 'scheduled'. An entry
\* with no publishTime (Nil) gives new Date(undefined), an invalid date, and
\* every comparison with it is false.
isDue(e, t) ==
    e.publishTime # Nil /\ e.publishTime <= t /\ e.status = "scheduled"

\* The filter without the test of the status.
isDue_anyStatus(e, t) == e.publishTime <= t

readyToPublish(q, es, t) == SelectSeq(q, LAMBDA k : isDue(es[k], t))

\* A catch that records the error and leaves the status as it is.
markFailed_keepStatus(es, k, msg) == [es EXCEPT ![k].error = msg]

\* The catch of the loop: the entry of the iteration is marked failed.
markFailed(es, k, msg) ==
    [es EXCEPT ![k].status = "failed", ![k].error = msg]

\* Iteration i of the loop up to its first await: publishContent looks the
\* entry up by its productionId and starts the upload; when the lookup finds
\* nothing it throws, and the catch of the loop marks the entry and awaits
\* the Store. Past the last entry the drain returns readyToPublish.length.
beginAttempt(dr, es, tab, q, i, db) ==
    IF i > Len(dr.ready)
    THEN [drain |-> [dr EXCEPT !.pc = "done", !.i = i, !.target = 0,
                               !.ret = Len(dr.ready)],
          entries |-> es, schedule |-> tab, stored |-> FALSE]
    ELSE LET e == dr.ready[i]
             t == find(q, es, es[e].productionId)
             attempt == [entry |-> e, target |-> t,
                         time |-> es[e].publishTime,
                         upTime |-> IF t = 0 THEN Nil ELSE es[t].publishTime,
                         upStatus |-> IF t = 0 THEN NULL ELSE es[t].status,
                         res |-> IF t = 0 THEN "notFound" ELSE "pending"]
         IN  IF t = 0
             THEN LET es1 == markFailed(es, e, "notFound")
                  IN  [drain |-> [dr EXCEPT !.pc = "storeC", !.i = i,
                                            !.target = 0, !.dbOk = (db = "ok"),
                                            !.log = Append(@, attempt)],
                       entries |-> es1,
                       schedule |-> storeUpdate(tab, e, es1[e], db),
                       stored |-> TRUE]
             ELSE [drain |-> [dr EXCEPT !.pc = "upload", !.i = i, !.target = t,
                                        !.log = Append(@, attempt)],
                   entries |-> es, schedule |-> tab, stored |-> FALSE]

setRes(dr, r) == [dr EXCEPT !.log[Len(dr.log)].res = r]

Free(d) == drains[d].pc \in {"idle", "done"}

\* The queue-drain task fires: processPublishQueue runs up to its first await.
\* The firing takes the lowest slot that holds no running drain.
DrainStart(d, db) ==
    /\ Free(d)
    /\ \A c \in 1..(d - 1) : ~Free(c)
    /\ LET dr == [IdleDrain EXCEPT !.now = now,
                    !.ready = readyToPublish(publishQueue, entries, now)]
           r  == beginAttempt(dr, entries, schedule, publishQueue, 1, db)
       IN  /\ drains' = [drains EXCEPT ![d] = r.drain]
           /\ entries' = r.entries
           /\ schedule' = r.schedule
           /\ StoreCall(r.stored, db)
    /\ UNCHANGED <<prioVars, schedVars, pipeVars, publishQueue, manual, requests, now>>

\* uploadToYouTube settles. On success publishContent writes status,
\* publishedAt, youtubeId and youtubeUrl and awaits the Store; on failure it
\* rethrows, and the catch of the loop marks the entry of the iteration and
\* awaits the Store.
published(es, t, at) ==
    [es EXCEPT ![t].status = "published", ![t].publishedAt = at,
               ![t].youtubeId = "yt"]

DrainUploadDone(d, o, db) ==
    /\ drains[d].pc = "upload"
    /\ LET dr == drains[d]
           t  == dr.target
           e  == dr.ready[dr.i]
       IN  IF o = "ok"
           THEN LET es1 == published(entries, t, now)
                IN  /\ entries' = es1
                    /\ schedule' = storeUpdate(schedule, t, es1[t], db)
                    /\ drains' = [drains EXCEPT ![d] =
                                    [setRes(dr, "uploaded") EXCEPT
                                        !.pc = "storeP", !.dbOk = (db = "ok")]]
           ELSE LET es1 == markFailed(entries, e, "upload")
                IN  /\ entries' = es1
                    /\ schedule' = storeUpdate(schedule, e, es1[e], db)
                    /\ drains' = [drains EXCEPT ![d] =
                                    [setRes(dr, "uploadFail") EXCEPT
                                        !.pc = "storeC", !.dbOk = (db = "ok")]]
    /\ StoreCall(TRUE, db)
    /\ UNCHANGED <<prioVars, schedVars, pipeVars, publishQueue, manual, requests, now>>

\* "Remove from queue": publishQueue.filter(entry => entry.id !== id).
removeFromQueue(q, t) == SelectSeq(q, LAMBDA k : k # t)

\* The Store call of publishContent settles. Resolved: the entry is filtered
\* out of the queue and the loop goes on. Rejected: publishContent rethrows
\* and the catch of the loop marks the entry of the iteration.
DrainStoreDoneP(d, db) ==
    /\ drains[d].pc = "storeP"
    /\ LET dr == drains[d]
           e  == dr.ready[dr.i]
       IN  IF dr.dbOk
           THEN LET q1 == removeFromQueue(publishQueue, dr.target)
                    r  == beginAttempt(setRes(dr, "ok"), entries, schedule,
                                       q1, dr.i + 1, db)
                IN  /\ publishQueue' = q1
                    /\ entries' = r.entries
                    /\ schedule' = r.schedule
                    /\ drains' = [drains EXCEPT ![d] = r.drain]
                    /\ StoreCall(r.stored, db)
           ELSE LET es1 == markFailed(entries, e, "db")
                IN  /\ entries' = es1
                    /\ schedule' = storeUpdate(schedule, e, es1[e], db)
                    /\ drains' = [drains EXCEPT ![d] =
                                    [setRes(dr, "dbFail") EXCEPT
                                        !.pc = "storeC", !.dbOk = (db = "ok")]]
                    /\ StoreCall(TRUE, db)
                    /\ UNCHANGED publishQueue
    /\ UNCHANGED <<prioVars, schedVars, pipeVars, manual, requests, now>>

\* The Store call in the catch of the loop settles. Resolved: the loop goes
\* on. Rejected: processPublishQueue throws.
DrainStoreDoneC(d, db) ==
    /\ drains[d].pc = "storeC"
    /\ LET dr == drains[d]
       IN  IF dr.dbOk
           THEN LET r == beginAttempt(dr, entries, schedule, publishQueue,
                                      dr.i + 1, db)
                IN  /\ entries' = r.entries
                    /\ schedule' = r.schedule
                    /\ drains' = [drains EXCEPT ![d] = r.drain]
                    /\ StoreCall(r.stored, db)
           ELSE /\ drains' = [drains EXCEPT ![d] =
                                [dr EXCEPT !.pc = "done", !.target = 0]]
                /\ UNCHANGED <<entries, schedule, storeFaults>>
    /\ UNCHANGED <<prioVars, schedVars, pipeVars, publishQueue, manual, requests, now>>

\* ---- publishContent called directly: POST /publish/:contentId, and
\* emergencyPublish with no delay
ContentIds == ProductionIds \cup {scheduleId(k) : k \in EntryKeys}

IdleManual == [pc |-> "idle", target |-> 0, dbOk |-> TRUE]

\* The request arrives: the entry is looked up and the upload started. A
\* contentId that matches nothing throws with no effect.
ManualPublishStart(contentId) ==
    /\ manual.pc = "idle"
    /\ requests < MaxRequests
    /\ requests' = requests + 1
    /\ find(publishQueue, entries, contentId) # 0
    /\ manual' = [IdleManual EXCEPT !.pc = "upload",
                    !.target = find(publishQueue, entries, contentId)]
    /\ UNCHANGED <<prioVars, schedVars, pipeVars, entries, publishQueue, schedule,
                   drains, storeFaults, now>>

\* uploadToYouTube settles: on failure the catch of publishContent logs and
\* rethrows, and the route answers 500.
ManualUploadDone(o, db) ==
    /\ manual.pc = "upload"
    /\ IF o = "ok"
       THEN LET es1 == published(entries, manual.target, now)
            IN  /\ entries' = es1
                /\ schedule' = storeUpdate(schedule, manual.target,
                                           es1[manual.target], db)
                /\ manual' = [manual EXCEPT !.pc = "storeP",
                                            !.dbOk = (db = "ok")]
                /\ StoreCall(TRUE, db)
       ELSE /\ manual' = IdleManual
            /\ UNCHANGED <<entries, schedule, storeFaults>>
    /\ UNCHANGED <<prioVars, schedVars, pipeVars, publishQueue, drains, requests, now>>

\* The Store call settles: resolved, the entry is filtered out of the queue;
\* rejected, publishContent rethrows.
ManualStoreDone ==
    /\ manual.pc = "storeP"
    /\ publishQueue' = IF manual.dbOk
                       THEN removeFromQueue(publishQueue, manual.target)
                       ELSE publishQueue
    /\ manual' = IdleManual
    /\ UNCHANGED <<prioVars, schedVars, pipeVars, entries, schedule, drains, requests,
                   storeFaults, now>>

\* emergencyPublish(contentId, delayMinutes) with a delay: the publish time
\* of the entry becomes now + delay. (Without a delay it is publishContent.)
EmergencyPublish(contentId, delayHours, db) ==
    /\ delayHours > 0
    /\ find(publishQueue, entries, contentId) # 0
    /\ LET k   == find(publishQueue, entries, contentId)
           es1 == [entries EXCEPT ![k].publishTime = now + delayHours]
       IN  /\ entries' = es1
           /\ schedule' = storeUpdate(schedule, k, es1[k], db)
    /\ StoreCall(TRUE, db)
    /\ requests < MaxRequests
    /\ requests' = requests + 1
    /\ UNCHANGED <<prioVars, schedVars, pipeVars, publishQueue, drains, manual, now>>

\* pauseScheduledContent(contentId)
PauseScheduledContent(contentId, db) ==
    /\ find(publishQueue, entries, contentId) # 0
    /\ LET k   == find(publishQueue, entries, contentId)
           es1 == [entries EXCEPT ![k].status = "paused"]
       IN  /\ entries' = es1
           /\ schedule' = storeUpdate(schedule, k, es1[k], db)
    /\ StoreCall(TRUE, db)
    /\ requests < MaxRequests
    /\ requests' = requests + 1
    /\ UNCHANGED <<prioVars, schedVars, pipeVars, publishQueue, drains, manual, now>>

\* resumeScheduledContent(contentId, newPublishTime): a null newPublishTime
\* (Nil) keeps the publish time.
ResumeScheduledContent(contentId, newPublishTime, db) ==
    /\ find(publishQueue, entries, contentId) # 0
    /\ LET k   == find(publishQueue, entries, contentId)
           es1 == [entries EXCEPT
                     ![k].status = "scheduled",
                     ![k].publishTime = IF newPublishTime # Nil
                                        THEN newPublishTime ELSE @]
       IN  /\ entries' = es1
           /\ schedule' = storeUpdate(schedule, k, es1[k], db)
    /\ StoreCall(TRUE, db)
    /\ requests < MaxRequests
    /\ requests' = requests + 1
    /\ UNCHANGED <<prioVars, schedVars, pipeVars, publishQueue, drains, manual, now>>

\* ---- optimizePublishTimes
\* Days are counted from Monday = 0: Tuesday, Wednesday and Thursday are the
\* optimal days. getChannelAnalytics gives the optimal hours 14, 15, 16, 20,
\* and 14, 15, 16 from its catch.
dayOf(t)  == (t \div 24) % 7
hourOf(t) == t % 24
startOfDay(t) == (t \div 24) * 24

bestDays == {1, 2, 3}

bestHours(analytics) ==
    IF analytics = "ok" THEN <<14, 15, 16, 20>> ELSE <<14, 15, 16>>

\* findBetterTime: Nil when the time is optimal already; else the first
\* optimal hour later the same day when the day is optimal; else the first
\* optimal hour of the next optimal day.
findBetterTime(t, hours) ==
    IF dayOf(t) \in bestDays /\ hourOf(t) \in Range(hours) THEN Nil
    ELSE IF dayOf(t) \in bestDays /\ \E i \in 1..Len(hours) : hours[i] > hourOf(t)
    THEN startOfDay(t)
           + hours[CHOOSE i \in 1..Len(hours) :
                      /\ hours[i] > hourOf(t)
                      /\ \A j \in 1..(i - 1) : hours[j] <= hourOf(t)]
    ELSE IF \E n \in 1..7 : dayOf(t + 24 * n) \in bestDays
    THEN LET n == CHOOSE n \in 1..7 :
                      /\ dayOf(t + 24 * n) \in bestDays
                      /\ \A m \in 1..(n - 1) : dayOf(t + 24 * m) \notin bestDays
         IN  startOfDay(t + 24 * n) + hours[1]
    ELSE Nil

optimized(e, hours) ==
    IF e.status = "scheduled" /\ findBetterTime(e.publishTime, hours) # Nil
                              /\ findBetterTime(e.publishTime, hours) # e.publishTime
    THEN [e EXCEPT !.publishTime = findBetterTime(e.publishTime, hours)]
    ELSE e

\* Every 'scheduled' entry of the queue is moved to its better time and
\* written to the Store.
OptimizePublishTimes(analytics) ==
    /\ entries' = [k \in EntryKeys |->
                     IF k \in Range(publishQueue)
                     THEN optimized(entries[k], bestHours(analytics))
                     ELSE entries[k]]
    /\ entries' # entries
    /\ schedule' = [k \in DOMAIN schedule |->
                      IF entries'[k] # entries[k]
                      THEN updateScheduleEntry(schedule, k, entries'[k])[k]
                      ELSE schedule[k]]
    /\ requests < MaxRequests
    /\ requests' = requests + 1
    /\ UNCHANGED <<prioVars, schedVars, pipeVars, publishQueue, drains, manual,
                   storeFaults, now>>

\* ---- a restart of the process: initialize() of a new agent
\* getPublishQueue: SELECT * FROM publish_schedule WHERE status IN
\* ('scheduled', 'paused') ORDER BY publish_time ASC, as the ids of the rows.
RECURSIVE rowsByTime(_, _)
rowsByTime(table, keys) ==
    IF keys = {} THEN <<>>
    ELSE LET k == CHOOSE k \in keys :
                      \A j \in keys :
                          \/ table[k].publish_time < table[j].publish_time
                          \/ /\ table[k].publish_time = table[j].publish_time
                             /\ k <= j
         IN  <<k>> \o rowsByTime(table, keys \ {k})

getPublishQueue(table) ==
    rowsByTime(table, {k \in DOMAIN table :
                           table[k].status \in {"scheduled", "paused"}})

\* The object loadPublishQueue puts in the queue for a row: { ...row,
\* metadata }. Its keys are the column names (id, production_id,
\* publish_time, status, priority, youtube_id, ...), so the properties the
\* agent reads, productionId, publishTime, youtubeId, publishedAt and error,
\* are undefined on it.
reloaded(row) ==
    [productionId |-> Nil, publishTime |-> Nil, status |-> row.status,
     priority |-> row.priority, youtubeId |-> NULL, publishedAt |-> Nil,
     error |-> NULL]

\* The process restarts: the pipeline, the queue and every activation in
\* memory are lost, and loadPublishQueue fills the queue from the Store; when
\* the Store rejects, its catch leaves the queue empty.
Restart(db) ==
    /\ pipeline # <<>>
    /\ pipeline' = <<>>
    /\ run' = IdleRun
    /\ drains' = [d \in 1..MaxDrains |-> IdleDrain]
    /\ manual' = IdleManual
    /\ publishQueue' = IF db = "ok" THEN getPublishQueue(schedule) ELSE <<>>
    /\ entries' = [k \in EntryKeys |->
                     IF k \in Range(publishQueue')
                     THEN reloaded(schedule[k]) ELSE entries[k]]
    /\ StoreCall(TRUE, db)
    /\ UNCHANGED <<prioVars, schedVars, productions, schedule, requests, now>>

\* ---- the clock: the instants observed
Clock == <<33, 35>>

Tick ==
    /\ \E i \in 1..(Len(Clock) - 1) : now = Clock[i] /\ now' = Clock[i + 1]
    /\ UNCHANGED <<prioVars, schedVars, pipeVars, queueVars>>

(***************************************************************************)
(* DailyAutomation: the generation gate                                    *)
(***************************************************************************)
\* createTables: the tables of the Store.
Tables == {"content_strategies", "scripts", "thumbnails", "seo_data",
           "productions", "publish_schedule", "analytics_reports",
           "keyword_performance", "content_history", "settings"}

\* insertDefaultSettings, restricted to the keys shouldGenerateContentToday
\* reads: only content_buffer_days has a default row.
defaultSettings ==
    [content_buffer_days |-> "3", posting_frequency |-> NULL,
     last_content_generation |-> Nil]

\* getSetting: row ? row.value : null.
getSetting(st, key) == st[key]

\* parseInt on the values a settings row can hold; NaN is Nil.
parseInt(s) ==
    CASE s = "0" -> 0
      [] s = "1" -> 1
      [] s = "2" -> 2
      [] s = "3" -> 3
      [] s = "4" -> 4
      [] OTHER   -> Nil

\* x || d for a number: NaN and 0 are falsy.
orDefault(x, d) == IF x = Nil \/ x = 0 THEN d ELSE x

\* Date.getDay: Sunday is 0.
getDay(t) == (dayOf(t) + 1) % 7

\* getUpcomingSchedule(days): the queue entries whose publish time lies in
\* [now, now + days], whatever their status (the result is only counted).
getUpcomingSchedule(q, es, t, days) ==
    SelectSeq(q, LAMBDA k : es[k].publishTime >= t
                            /\ es[k].publishTime <= t + days * 24)

\* The buffer test of shouldGenerateContentToday, with >= replaced by >.
bufferFull_strict(count, bufferDays) == count > bufferDays

bufferFull(count, bufferDays) == count >= bufferDays

\* The frequency test, reached only when last_content_generation is set.
frequencyDue(frequency, lastGeneration, today) ==
    LET daysSinceLastGeneration == (today - lastGeneration) \div 24
    IN  CASE frequency = "daily"        -> daysSinceLastGeneration >= 1
          [] frequency = "every-2-days" -> daysSinceLastGeneration >= 2
          [] frequency = "3-per-week"   ->
                 \/ daysSinceLastGeneration >= 2
                 \/ getDay(today) \in {1, 3, 5}
          [] frequency = "weekly"       -> daysSinceLastGeneration >= 7
          [] OTHER                      -> TRUE

shouldGenerateContentToday(q, es, st, today) ==
    LET upcomingContent == getUpcomingSchedule(q, es, today, 3)
        bufferDays == orDefault(parseInt(getSetting(st, "content_buffer_days")), 3)
        configured == getSetting(st, "posting_frequency")
        frequency  == IF configured = NULL THEN "daily" ELSE configured
        lastGeneration == getSetting(st, "last_content_generation")
    IN  IF bufferFull(Len(upcomingContent), bufferDays) THEN FALSE
        ELSE IF lastGeneration # Nil
             THEN frequencyDue(frequency, lastGeneration, today)
             ELSE TRUE

NoGate == [done |-> FALSE, result |-> FALSE]

\* One call of shouldGenerateContentToday on the queue and settings at hand.
CheckGate ==
    /\ ~gate.done
    /\ gate' = [done |-> TRUE,
                result |-> shouldGenerateContentToday(publishQueue, entries,
                                                      settings, now)]
    /\ UNCHANGED <<prioVars, pipeVars, queueVars, settings, generate, automation, tasks,
                   automationEvents, now>>

\* ---- the cron callbacks
MaxTasks == 1

IdleGenerate == [pc |-> "idle", item |-> 0]

IdleTask == [task |-> NULL, pc |-> "idle", threw |-> FALSE, item |-> 0]

MaxGenerated == 2

TaskNames == {"daily-content-generation", "publish-queue-processing",
              "daily-analytics", "weekly-strategy-review",
              "daily-optimization", "database-maintenance"}

\* The cron expression of each task: '0 6 * * *', '*/15 * * * *',
\* '0 9 * * *', '0 8 * * 0', '0 22 * * *', '0 3 * * 6'.
cronMatches(task, t) ==
    CASE task = "daily-content-generation" -> hourOf(t) = 6
      [] task = "publish-queue-processing" -> TRUE
      [] task = "daily-analytics"          -> hourOf(t) = 9
      [] task = "weekly-strategy-review"   -> getDay(t) = 0 /\ hourOf(t) = 8
      [] task = "daily-optimization"       -> hourOf(t) = 22
      [] task = "database-maintenance"     -> getDay(t) = 6 /\ hourOf(t) = 3

\* The event_type each task passes to logAutomationEvent.
eventType(task) ==
    CASE task = "daily-content-generation" -> "daily_content_generation"
      [] task = "publish-queue-processing" -> "queue_processing"
      [] task = "daily-analytics"          -> "analytics_collection"
      [] task = "weekly-strategy-review"   -> "weekly_strategy_review"
      [] task = "daily-optimization"       -> "daily_optimization"
      [] task = "database-maintenance"     -> "database_maintenance"

Settled(s) == tasks[s].pc \in {"idle", "returned", "rejected"}

\* A callback that calls the task whatever this.isEnabled is.
callback_unguarded(isEnabled, task) ==
    IF task = "daily-content-generation" THEN "gate" ELSE "body"

\* async () => { if (this.isEnabled) await this.<task>(); }: where the
\* activation stands after the test.
callback(isEnabled, task) ==
    IF ~isEnabled THEN "returned"
    ELSE IF task = "daily-content-generation" THEN "gate"
    ELSE "body"

\* node-cron calls the callback of a started task at an instant its
\* expression matches: if (this.isEnabled) await this.<task>(). The
\* activation takes the first slot that is free.
Fire(s, task) ==
    /\ automation.started
    /\ cronMatches(task, now)
    /\ task \notin automation.fired
    /\ Settled(s)
    /\ \A r \in 1..(s - 1) : ~Settled(r)
    /\ automation' = [automation EXCEPT !.fired = @ \cup {task}]
    /\ tasks' = [tasks EXCEPT ![s] =
           [IdleTask EXCEPT !.task = task,
                            !.pc = callback(automation.isEnabled, task)]]
    /\ UNCHANGED <<prioVars, pipeVars, queueVars, settings, generate, gate,
                   automationEvents, now>>

\* The catch of a task: logAutomationEvent(type, 'error') is awaited next.
caught(t) == [t EXCEPT !.pc = "logError", !.threw = TRUE]

\* runDailyContentGeneration: shouldGenerateContentToday settles. A false
\* answer returns without an event; a rejected Store read goes to the catch.
GateDone(s, db) ==
    /\ tasks[s].pc = "gate"
    /\ IF db = "ok"
       THEN LET answer == shouldGenerateContentToday(publishQueue, entries,
                                                     settings, now)
            IN  tasks' = [tasks EXCEPT ![s].pc =
                             IF answer THEN "produce" ELSE "returned"]
       ELSE tasks' = [tasks EXCEPT ![s] = caught(@)]
    /\ UNCHANGED <<prioVars, pipeVars, queueVars, settings, generate, gate, automation,
                   automationEvents, now>>

\* processContent run to the end at instant t: every milestone is stamped t.
processContent(id, strategy, t) ==
    LET literal == [newItem(id, calculatePublishTime(strategy, t),
                            calculatePriority(strategy, t))
                       EXCEPT !.timeline.created = t,
                              !.timeline.scriptReady = t,
                              !.timeline.thumbnailReady = t]
    IN  markReady(
            assembleVideo(
                generateCaptions(
                    generateAudioNarration(
                        generateVideoContent(literal, "real", t), "real", t),
                    t),
                "real"),
            t)

\* The strategy, script, thumbnail and SEO agents, then processContent: the
\* item joins the pipeline and its row the productions table, or one of the
\* calls throws.
Produce(s, strategy, o) ==
    /\ tasks[s].pc = "produce"
    /\ Len(pipeline) < MaxGenerated
    /\ IF o = "ok"
       THEN /\ pipeline' = Append(pipeline,
                               processContent(Len(pipeline) + 1, strategy, now))
            /\ productions' = saveProductionData(productions,
                                                 pipeline'[Len(pipeline')])
            /\ tasks' = [tasks EXCEPT ![s].pc = "schedule",
                                      ![s].item = Len(pipeline) + 1]
       ELSE /\ tasks' = [tasks EXCEPT ![s] = caught(@)]
            /\ UNCHANGED <<pipeline, productions>>
    /\ UNCHANGED <<prioVars, run, queueVars, settings, generate, gate,
                   automation, automationEvents, now>>

\* scheduleContent(productionData): push, sort, INSERT; a rejected insert is
\* rethrown to the catch of the task, else the success event is logged.
ScheduleProduced(s, db) ==
    /\ tasks[s].pc = "schedule"
    /\ LET p == pipeline[tasks[s].item]
           k == Len(entries) + 1
       IN  /\ entries' = Append(entries, newEntry(p))
           /\ publishQueue' = sortQueue(Append(publishQueue, k), entries')
           /\ schedule' = IF db = "ok"
                          THEN saveScheduleEntry(schedule, k, newEntry(p))
                          ELSE schedule
    /\ tasks' = [tasks EXCEPT ![s] =
                    IF scheduleContentThrows(pipeline[tasks[s].item], db)
                    THEN caught(@)
                    ELSE [@ EXCEPT !.pc = "logSuccess"]]
    /\ UNCHANGED <<prioVars, pipeVars, drains, manual, requests, storeFaults,
                   settings, generate, gate, automation, automationEvents, now>>

\* The body of one of the other five tasks settles: it threw, it has nothing
\* to report (the drain published nothing), or it logs its success event.
BodyDone(s, o) ==
    /\ tasks[s].pc = "body"
    /\ o = "none" => tasks[s].task = "publish-queue-processing"
    /\ tasks' = [tasks EXCEPT ![s] =
                    CASE o = "throw" -> caught(@)
                      [] o = "none"  -> [@ EXCEPT !.pc = "returned"]
                      [] OTHER       -> [@ EXCEPT !.pc = "logSuccess"]]
    /\ UNCHANGED <<prioVars, pipeVars, queueVars, settings, generate, gate, automation,
                   automationEvents, now>>

\* executeQuery of INSERT INTO automation_events: rejected when the Store
\* has no such table or the statement fails.
insertResolves(table, db) == table \in Tables /\ db = "ok"

\* logAutomationEvent settles. A rejected success event goes to the catch of
\* the task; a rejected error event, awaited inside the catch, rejects the
\* promise of the callback.
LogSettled(s, db) ==
    /\ tasks[s].pc \in {"logSuccess", "logError"}
    /\ LET status == IF tasks[s].pc = "logSuccess" THEN "success" ELSE "error"
       IN  IF insertResolves("automation_events", db)
           THEN /\ automationEvents' =
                       Append(automationEvents,
                              [event_type |-> eventType(tasks[s].task),
                               status |-> status])
                /\ tasks' = [tasks EXCEPT ![s].pc = "returned"]
           ELSE /\ tasks' = [tasks EXCEPT ![s] =
                               IF status = "success" THEN caught(@)
                               ELSE [@ EXCEPT !.pc = "rejected"]]
                /\ UNCHANGED automationEvents
    /\ UNCHANGED <<prioVars, pipeVars, queueVars, settings, generate, gate, automation,
                   now>>

PauseAutomation ==
    /\ automation.isEnabled
    /\ automation' = [automation EXCEPT !.isEnabled = FALSE]
    /\ UNCHANGED <<prioVars, pipeVars, queueVars, settings, generate, gate, tasks,
                   automationEvents, now>>

ResumeAutomation ==
    /\ ~automation.isEnabled
    /\ automation' = [automation EXCEPT !.isEnabled = TRUE]
    /\ UNCHANGED <<prioVars, pipeVars, queueVars, settings, generate, gate, tasks,
                   automationEvents, now>>

\* stopAutomation: every cron task is stopped, then isEnabled = false.
StopAutomation ==
    /\ automation.started
    /\ automation' = [automation EXCEPT !.started = FALSE, !.isEnabled = FALSE]
    /\ UNCHANGED <<prioVars, pipeVars, queueVars, settings, generate, gate, tasks,
                   automationEvents, now>>

\* The instants observed: Saturday 03:00 and 06:00, Sunday 06:00, 08:00,
\* 09:00 and 22:00 of the first week.
SchedClock == <<123, 126, 150, 152, 153, 166>>

SchedTick ==
    /\ \E i \in 1..(Len(SchedClock) - 1) :
           now = SchedClock[i] /\ now' = SchedClock[i + 1]
    /\ automation' = [automation EXCEPT !.fired = {}]
    /\ UNCHANGED <<prioVars, pipeVars, queueVars, settings, generate, gate, tasks,
                   automationEvents>>

\* ---- generateContent (POST /generate)
\* INSERT INTO productions: rejected when the Store fails or a row with the
\* id exists (id is the PRIMARY KEY).
insertRejected(table, p, db) == db # "ok" \/ p.id \in DOMAIN table

\* Steps 1 to 5: the strategy, script, thumbnail and SEO agents, then
\* processContent, which pushes the item and writes its row.
GenerateProduce(strategy, o) ==
    /\ generate.pc = "idle"
    /\ Len(pipeline) < MaxGenerated
    /\ IF o = "ok"
       THEN /\ pipeline' = Append(pipeline,
                               processContent(Len(pipeline) + 1, strategy, now))
            /\ productions' = saveProductionData(productions,
                                                 pipeline'[Len(pipeline')])
            /\ generate' = [pc |-> "save", item |-> Len(pipeline) + 1]
       ELSE /\ generate' = [pc |-> "threw", item |-> 0]
            /\ UNCHANGED <<pipeline, productions>>
    /\ UNCHANGED <<prioVars, run, queueVars, settings, gate, automation,
                   tasks, automationEvents, now>>

\* Step 6: db.saveProductionData(productionData) on the item processContent
\* returned, then the result is built. No call of scheduleContent is made.
GenerateSave(db) ==
    /\ generate.pc = "save"
    /\ LET p == pipeline[generate.item]
       IN  IF insertRejected(productions, p, db)
           THEN /\ generate' = [generate EXCEPT !.pc = "threw"]
                /\ UNCHANGED productions
           ELSE /\ generate' = [generate EXCEPT !.pc = "returned"]
                /\ productions' = saveProductionData(productions, p)
    /\ UNCHANGED <<prioVars, pipeline, run, queueVars, settings, gate,
                   automation, tasks, automationEvents, now>>

(***************************************************************************)
(* Specifications                                                          *)
(***************************************************************************)
QueueIdle ==
    /\ entries = <<>>
    /\ publishQueue = <<>>
    /\ schedule = <<>>
    /\ drains = [d \in 1..MaxDrains |-> IdleDrain]
    /\ manual = IdleManual
    /\ requests = 0
    /\ storeFaults = 0

SchedIdle ==
    /\ settings = defaultSettings
    /\ gate = NoGate
    /\ automation = [isEnabled |-> TRUE, started |-> FALSE, fired |-> {}]
    /\ tasks = [s \in 1..MaxTasks |-> IdleTask]
    /\ automationEvents = <<>>
    /\ generate = IdleGenerate

PipelineIdle ==
    /\ pipeline = <<>>
    /\ productions = <<>>
    /\ run = IdleRun

\* ---- calculatePriority on every sampled strategy
PriorityInit ==
    /\ prioIn \in Strategies
    /\ prioOut = Nil
    /\ now = PrioNow
    /\ PipelineIdle
    /\ QueueIdle
    /\ SchedIdle

ComputePriority ==
    /\ prioOut = Nil
    /\ prioOut' = calculatePriority(prioIn, now)
    /\ UNCHANGED <<prioIn, schedVars, pipeVars, queueVars, now>>

PriorityNext == ComputePriority

PrioritySpec == PriorityInit /\ [][PriorityNext]_vars

\* ---- the production pipeline
PipelineInit ==
    /\ prioIn = NoStrategy
    /\ prioOut = Nil
    /\ now = 0
    /\ PipelineIdle
    /\ QueueIdle
    /\ SchedIdle

PipelineNext ==
    \/ \E strategy \in PipelineStrategies : StartProcess(strategy)
    \/ \E o \in {"ok", "fsFail"} : ProcessScript(o)
    \/ \E o \in {"real", "genSim", "fallback", "throw"} : ProcessThumbnail(o)
    \/ \E o \in {"ok", "dbFail"} : SaveProduction(o)
    \/ \E o \in {"real", "genSim", "fallback"} : GenerateVideoContent(o)
    \/ \E o \in {"real", "genSim", "fallback", "throw"} : GenerateAudioNarration(o)
    \/ \E o \in {"ok", "fsFail"} : GenerateCaptions(o)
    \/ \E o \in {"real", "fallback", "throw"} : AssembleVideo(o)
    \/ \E o \in {"ok", "dbFail"} : UpdateProduction(o)

PipelineSpec == PipelineInit /\ [][PipelineNext]_vars


\* ---- the publish queue, its drains and the operator's requests
Init ==
    /\ prioIn = NoStrategy
    /\ prioOut = Nil
    /\ now = Clock[1]
    /\ pipeline = QueueItems
    /\ productions = <<>>
    /\ run = IdleRun
    /\ QueueIdle
    /\ SchedIdle

Outcomes == {"ok", "fail"}

Next ==
    \/ \E i \in 1..Len(pipeline), db \in Outcomes : ScheduleContent(pipeline[i], db)
    \/ \E d \in 1..MaxDrains, db \in Outcomes : DrainStart(d, db)
    \/ \E d \in 1..MaxDrains, o \in Outcomes, db \in Outcomes : DrainUploadDone(d, o, db)
    \/ \E d \in 1..MaxDrains, db \in Outcomes : DrainStoreDoneP(d, db)
    \/ \E d \in 1..MaxDrains, db \in Outcomes : DrainStoreDoneC(d, db)
    \/ \E c \in ContentIds : ManualPublishStart(c)
    \/ \E o \in Outcomes, db \in Outcomes : ManualUploadDone(o, db)
    \/ ManualStoreDone
    \/ \E c \in ContentIds, db \in Outcomes : EmergencyPublish(c, 2, db)
    \/ \E c \in ContentIds, db \in Outcomes : PauseScheduledContent(c, db)
    \/ \E c \in ContentIds, t \in {Nil, 35}, db \in Outcomes :
           ResumeScheduledContent(c, t, db)
    \/ \E a \in Outcomes : OptimizePublishTimes(a)
    \/ Tick

Spec == Init /\ [][Next]_vars

\* ---- the order of the queue: enqueues and drains with no operator request
ScheduleContentInOrder(p, db) ==
    /\ Len(entries) < MaxOrderEntries
    /\ enqueue(p, db)

OrderNext ==
    \/ \E i \in 1..Len(pipeline), db \in Outcomes :
           ScheduleContentInOrder(pipeline[i], db)
    \/ \E d \in 1..MaxDrains, db \in Outcomes : DrainStart(d, db)
    \/ \E d \in 1..MaxDrains, o \in Outcomes, db \in Outcomes : DrainUploadDone(d, o, db)
    \/ \E d \in 1..MaxDrains, db \in Outcomes : DrainStoreDoneP(d, db)
    \/ \E d \in 1..MaxDrains, db \in Outcomes : DrainStoreDoneC(d, db)
    \/ Tick

OrderSpec == Init /\ [][OrderNext]_vars

\* ---- the publish queue across a restart of the process
RestartNext ==
    \/ \E i \in 1..Len(pipeline), db \in Outcomes : ScheduleContent(pipeline[i], db)
    \/ \E d \in 1..MaxDrains, db \in Outcomes : DrainStart(d, db)
    \/ \E d \in 1..MaxDrains, o \in Outcomes, db \in Outcomes : DrainUploadDone(d, o, db)
    \/ \E d \in 1..MaxDrains, db \in Outcomes : DrainStoreDoneP(d, db)
    \/ \E d \in 1..MaxDrains, db \in Outcomes : DrainStoreDoneC(d, db)
    \/ \E c \in ContentIds, db \in Outcomes : PauseScheduledContent(c, db)
    \/ \E db \in Outcomes : Restart(db)
    \/ Tick

RestartSpec == Init /\ [][RestartNext]_vars

\* ---- the publish queue with the drain task firing again and again: every
\* firing of the 15-minute task happens, and every await of a drain settles.
DrainSteps ==
    \/ \E d \in 1..MaxDrains, db \in Outcomes : DrainStart(d, db)
    \/ \E d \in 1..MaxDrains, o \in Outcomes, db \in Outcomes : DrainUploadDone(d, o, db)
    \/ \E d \in 1..MaxDrains, db \in Outcomes : DrainStoreDoneP(d, db)
    \/ \E d \in 1..MaxDrains, db \in Outcomes : DrainStoreDoneC(d, db)

LiveSpec == Init /\ [][Next]_vars /\ WF_vars(DrainSteps) /\ WF_vars(Tick)



\* ---- shouldGenerateContentToday on every sampled queue and settings
GateNows == {200, 224}

\* The publish times of the queue, relative to the call: 3 hours before it,
\* inside the three days that follow it, and 100 hours after it.
GateQueues == {<<>>, <<1>>, <<1, 7>>, <<1, 7, 17>>, <<1, 7, 17, 27>>,
               <<-3, 1, 7, 17>>, <<1, 7, 17, 100>>}

GateBuffers == {NULL, "0", "2", "3", "4"}

GateFrequencies == {NULL, "daily", "every-2-days", "3-per-week", "weekly"}

\* Hours between last_content_generation and the call; Nil when the key is
\* not set.
GateElapsed == {Nil, 10, 30, 50, 170}

GatingInit ==
    /\ prioIn = NoStrategy
    /\ prioOut = Nil
    /\ now \in GateNows
    /\ \E ts \in GateQueues :
           /\ pipeline = [k \in 1..Len(ts) |-> readyItem(k, now + ts[k], 50)]
           /\ entries = [k \in 1..Len(ts) |-> newEntry(pipeline[k])]
           /\ publishQueue = [k \in 1..Len(ts) |-> k]
           /\ schedule = [k \in 1..Len(ts) |-> scheduleRow(entries[k])]
    /\ productions = <<>>
    /\ run = IdleRun
    /\ drains = [d \in 1..MaxDrains |-> IdleDrain]
    /\ manual = IdleManual
    /\ requests = 0
    /\ storeFaults = 0
    /\ \E b \in GateBuffers, f \in GateFrequencies, h \in GateElapsed :
           settings = [content_buffer_days |-> b, posting_frequency |-> f,
                       last_content_generation |->
                           IF h = Nil THEN Nil ELSE now - h]
    /\ gate = NoGate
    /\ automation = [isEnabled |-> TRUE, started |-> FALSE, fired |-> {}]
    /\ tasks = [s \in 1..MaxTasks |-> IdleTask]
    /\ automationEvents = <<>>
    /\ generate = IdleGenerate

GatingNext == CheckGate

GatingSpec == GatingInit /\ [][GatingNext]_vars

\* ---- the cron tasks of DailyAutomation, after initialize()
SchedFrequencies == {NULL, "every-2-days"}

SchedulerInit ==
    /\ prioIn = NoStrategy
    /\ prioOut = Nil
    /\ now = SchedClock[1]
    /\ PipelineIdle
    /\ QueueIdle
    /\ \E f \in SchedFrequencies :
           settings = [defaultSettings EXCEPT !.posting_frequency = f]
    /\ gate = NoGate
    /\ automation = [isEnabled |-> TRUE, started |-> TRUE, fired |-> {}]
    /\ tasks = [s \in 1..MaxTasks |-> IdleTask]
    /\ automationEvents = <<>>
    /\ generate = IdleGenerate

SchedulerNext ==
    \/ \E s \in 1..MaxTasks, task \in TaskNames : Fire(s, task)
    \/ \E s \in 1..MaxTasks, db \in Outcomes : GateDone(s, db)
    \/ \E s \in 1..MaxTasks, o \in {"ok", "throw"} : Produce(s, NoStrategy, o)
    \/ \E s \in 1..MaxTasks, db \in Outcomes : ScheduleProduced(s, db)
    \/ \E s \in 1..MaxTasks, o \in {"ok", "none", "throw"} : BodyDone(s, o)
    \/ \E s \in 1..MaxTasks, db \in Outcomes : LogSettled(s, db)
    \/ PauseAutomation
    \/ ResumeAutomation
    \/ StopAutomation
    \/ SchedTick

SchedulerSpec == SchedulerInit /\ [][SchedulerNext]_vars

\* ---- content generation: the daily task, with firings that may overlap,
\* and a manual request
MaxOverlap == 2

GenerationInit ==
    /\ prioIn = NoStrategy
    /\ prioOut = Nil
    /\ now = SchedClock[1]
    /\ PipelineIdle
    /\ QueueIdle
    /\ settings = defaultSettings
    /\ gate = NoGate
    /\ automation = [isEnabled |-> TRUE, started |-> TRUE, fired |-> {}]
    /\ tasks = [s \in 1..MaxOverlap |-> IdleTask]
    /\ automationEvents = <<>>
    /\ generate = IdleGenerate

GenerationNext ==
    \/ \E s \in 1..MaxOverlap : Fire(s, "daily-content-generation")
    \/ \E s \in 1..MaxOverlap, db \in Outcomes : GateDone(s, db)
    \/ \E s \in 1..MaxOverlap, strategy \in PipelineStrategies,
          o \in {"ok", "throw"} : Produce(s, strategy, o)
    \/ \E s \in 1..MaxOverlap, db \in Outcomes : ScheduleProduced(s, db)
    \/ \E s \in 1..MaxOverlap, db \in Outcomes : LogSettled(s, db)
    \/ \E strategy \in PipelineStrategies, o \in {"ok", "throw"} :
           GenerateProduce(strategy, o)
    \/ \E db \in Outcomes : GenerateSave(db)
    \/ SchedTick

GenerationSpec == GenerationInit /\ [][GenerationNext]_vars




(***************************************************************************)
(* Properties of the production pipeline                                   *)
(***************************************************************************)
Milestones == {"scriptReady", "thumbnailReady", "audioGenerated",
               "videoGenerated", "captionsGenerated", "readyForUpload"}

Items == {pipeline[i] : i \in 1..Len(pipeline)}

\* C1: every production item whose status is 'ready' has all six stage
\* entries of its timeline non-null, whatever path each stage took.
C1_ReadyHasFullTimeline ==
    \A p \in Items :
        p.status = "ready" => \A m \in Milestones : p.timeline[m] # Nil

\* The bonuses of the priority as the specification tabulates them.
C7_ViewsBonus(s) ==
    CASE s.estimatedViews = Nil -> 0
      [] s.estimatedViews > 100000 -> 30
      [] s.estimatedViews > 50000 /\ s.estimatedViews <= 100000 -> 20
      [] s.estimatedViews > 10000 /\ s.estimatedViews <= 50000 -> 10
      [] OTHER -> 0

C7_CompetitorBonus(s) ==
    IF s.competitorAnalysis # Nil /\ s.competitorAnalysis >= 1 THEN 10 ELSE 0

C7_TimeBonus(s, t) ==
    CASE s.bestPublishTime = Nil -> 0
      [] s.bestPublishTime # Nil /\ s.bestPublishTime - t < 24 -> 20
      [] s.bestPublishTime # Nil /\ s.bestPublishTime - t >= 24
                                 /\ s.bestPublishTime - t < 48 -> 10
      [] OTHER -> 0

\* C7: calculatePriority returns min(100, 50 + viewsBonus + competitorBonus
\* + timeBonus) with the bonuses tabulated above, so it is an integer in
\* 0..100, and 200000 views with a target 12 hours ahead give 100.
C7_PriorityFormula ==
    prioOut # Nil =>
        /\ prioOut = Min(100, 50 + C7_ViewsBonus(prioIn)
                                 + C7_CompetitorBonus(prioIn)
                                 + C7_TimeBonus(prioIn, now))
        /\ prioOut \in 0..100
        /\ (prioIn.estimatedViews = 200000 /\ prioIn.bestPublishTime = now + 12)
               => prioOut = 100

\* C7 witness: 200000 views, no competitor data, target 12 hours ahead: 100.
C7_Witness ==
    /\ prioOut = 100
    /\ prioIn.estimatedViews = 200000
    /\ prioIn.competitorAnalysis = 0
    /\ prioIn.bestPublishTime = now + 12

\* The run has ended and only its thumbnail generator failed.
C8_OnlyThumbnailFailed(r) ==
    /\ r.pc \in {"update", "returned"}
    /\ r.env["thumbnail"] \in {"genSim", "fallback"}
    /\ r.env["script"] = "ok" /\ r.env["captions"] = "ok"
    /\ r.env["video"] = "real" /\ r.env["audio"] = "real"
    /\ r.env["assembly"] = "real"

\* C8: when only the thumbnail generator fails, the item reaches 'ready'
\* with assets.thumbnail marked simulated and no other artifact marked so.
C8_ThumbnailMarkedSimulated ==
    C8_OnlyThumbnailFailed(run) =>
        LET p == pipeline[run.item]
        IN  /\ p.status = "ready"
            /\ p.assets.thumbnail.simulated
            /\ \A a \in {"script", "audio", "video", "captions", "finalVideo"} :
                   ~p.assets[a].simulated

\* The run has ended, and the external or file operation of exactly one
\* stage failed and nothing else did.
C9_SoleStageFailure(r) ==
    /\ r.pc \in {"returned", "threw"}
    /\ Cardinality({s \in Stages : r.env[s] \in {"fsFail", "genSim", "fallback"}}) = 1
    /\ \A s \in Steps : r.env[s] \notin {"throw", "dbFail"}

\* C9: when the external or file operation of exactly one stage fails and
\* nothing else does, processContent does not fail: it returns the item with
\* status 'ready'.
C9_SingleStageFailureNotFatal ==
    C9_SoleStageFailure(run) =>
        /\ run.pc = "returned"
        /\ pipeline[run.item].status = "ready"

\* C18: once an entry of the timeline of a production item is non-null, no
\* later step of the pipeline changes or clears it.
C18_TimelineWrittenOnce ==
    [][\A i \in 1..Len(pipeline) : \A m \in DOMAIN pipeline[i].timeline :
          pipeline[i].timeline[m] # Nil
              => pipeline'[i].timeline[m] = pipeline[i].timeline[m]]_vars

\* C18 witness: a second run works while the item of the first run is
\* 'ready' with its six stage entries set at distinct instants.
C18_Witness ==
    /\ run.n = 2 /\ run.pc = "update"
    /\ Len(pipeline) = 2
    /\ pipeline[1].status = "ready"
    /\ \A m \in Milestones : pipeline[1].timeline[m] # Nil
    /\ pipeline[1].timeline.videoGenerated < pipeline[1].timeline.readyForUpload
    /\ pipeline[2].timeline.audioGenerated = Nil
    /\ pipeline[2].timeline.readyForUpload # Nil

\* C19: when a run of the pipeline has ended its item is not 'processing':
\* it is 'ready' when the run returned and 'failed' when the run threw, in
\* memory and in the Store.
C19_NoItemLeftProcessing ==
    (run.pc \in {"returned", "threw"} /\ run.item # 0)
        => /\ run.pc = "returned" => pipeline[run.item].status = "ready"
           /\ run.pc = "threw" => pipeline[run.item].status = "failed"
           /\ run.item \in DOMAIN productions
                  => productions[run.item].status = pipeline[run.item].status

\* C20: between two stages the row of the item in the Store holds the
\* timeline and the assets of every stage completed in memory.
C20_StoreFollowsStages ==
    (run.pc \in {"video", "audio", "captions", "assembly"}
         /\ run.item \in DOMAIN productions)
        => /\ productions[run.item].timeline = pipeline[run.item].timeline
           /\ productions[run.item].assets = pipeline[run.item].assets

(***************************************************************************)
(* Properties of the publish queue                                         *)
(***************************************************************************)
\* C2: scheduleContent called with an item whose status is not 'ready' fails,
\* and neither the in-memory queue nor the publish_schedule table changes.
C2_NonReadyRejected ==
    [][\A i \in 1..Len(pipeline), db \in Outcomes :
          (pipeline[i].status # "ready" /\ ScheduleContent(pipeline[i], db))
              => /\ scheduleContentThrows(pipeline[i], db)
                 /\ UNCHANGED <<publishQueue, schedule>>]_vars

\* C3: for every productionId at most one entry has status 'scheduled'.
C3_OneScheduledPerProduction ==
    \A id \in ProductionIds :
        Cardinality({k \in DOMAIN entries :
                        /\ entries[k].productionId = id
                        /\ entries[k].status = "scheduled"}) <= 1

\* C4: a drain never starts the upload of an entry whose publishTime is
\* later than the now of that drain.
C4_DrainUploadsOnlyDue ==
    \A d \in 1..MaxDrains :
        \A n \in 1..Len(drains[d].log) :
            drains[d].log[n].target # 0
                => drains[d].log[n].upTime <= drains[d].now

\* C5: within one drain the attempts are made in non-decreasing order of the
\* publishTime of the entries.
C5_AttemptsInTimeOrder ==
    \A d \in 1..MaxDrains :
        \A m, n \in 1..Len(drains[d].log) :
            m < n => drains[d].log[m].time <= drains[d].log[n].time

\* The drain dr has returned; the upload threw for its entry a, and its
\* entry b, of another production, met no failure of its own.
C6_Case(dr, es, a, b) ==
    /\ dr.pc = "done" /\ dr.ret # Nil
    /\ a \in Range(dr.ready) /\ b \in Range(dr.ready)
    /\ es[a].productionId # es[b].productionId
    /\ \E n \in 1..Len(dr.log) :
           dr.log[n].entry = a /\ dr.log[n].res = "uploadFail"
    /\ \A n \in 1..Len(dr.log) :
           dr.log[n].entry = b => dr.log[n].res \notin {"uploadFail", "dbFail"}

\* C6: when the upload throws for a due entry A while an entry B of another
\* production is due too, then as the drain returns A is 'failed' with its
\* error set, still in the queue and not due, and B was attempted and
\* published in that drain.
C6_FailureIsolated ==
    [][\A d \in 1..MaxDrains : \A a, b \in DOMAIN entries' :
          (drains[d].pc # "done" /\ C6_Case(drains'[d], entries', a, b))
              => /\ entries'[a].status = "failed"
                 /\ entries'[a].error # NULL
                 /\ a \in Range(publishQueue')
                 /\ \A t \in Range(Clock) : ~isDue(entries'[a], t)
                 /\ \E n \in 1..Len(drains'[d].log) :
                        /\ drains'[d].log[n].entry = b
                        /\ drains'[d].log[n].target = b
                        /\ drains'[d].log[n].res = "ok"
                 /\ entries'[b].status = "published"]_vars

\* The publish time the entry k was enqueued with, when it still has it.
enqueuedTime(k) ==
    IF \E i \in 1..Len(pipeline) :
           /\ pipeline[i].id = entries[k].productionId
           /\ pipeline[i].scheduledPublishTime = entries[k].publishTime
    THEN entries[k].publishTime
    ELSE Nil

\* a stands before b in the sequence q.
before(q, a, b) ==
    \E i, j \in 1..Len(q) : i < j /\ q[i] = a /\ q[j] = b

\* C12: two entries enqueued with the same publishTime stand in the queue in
\* the order of their insertion, whatever was enqueued after them, and every
\* drain selects them in that order.
C12_TiesInInsertionOrder ==
    \A a, b \in DOMAIN entries :
        (a < b /\ enqueuedTime(a) # Nil /\ enqueuedTime(a) = enqueuedTime(b))
            => /\ ({a, b} \subseteq Range(publishQueue)
                       => before(publishQueue, a, b))
               /\ \A d \in 1..MaxDrains :
                      {a, b} \subseteq Range(drains[d].ready)
                          => before(drains[d].ready, a, b)

\* C12 witness: two items of the same publishTime were enqueued, then a
\* third entry, and a drain has attempted the two in the order of insertion.
C12_Witness ==
    \E d \in 1..MaxDrains :
        /\ drains[d].ready = <<1, 2, 3>>
        /\ Len(drains[d].log) >= 2
        /\ drains[d].log[1].entry = 1 /\ drains[d].log[2].entry = 2
        /\ enqueuedTime(1) # Nil /\ enqueuedTime(1) = enqueuedTime(2)
        /\ entries[1].productionId # entries[2].productionId

\* C15: a drain returns the number of entries it published in that call;
\* the entries whose attempt failed are not counted.
C15_DrainReturnsPublishedCount ==
    \A d \in 1..MaxDrains :
        (drains[d].pc = "done" /\ drains[d].ret # Nil)
            => drains[d].ret =
                   Cardinality({n \in 1..Len(drains[d].log) :
                                   drains[d].log[n].res = "ok"})

\* The entry k is 'failed' with its error set, in memory and in the Store.
failedEverywhere(es, tab, k) ==
    /\ es[k].status = "failed"
    /\ es[k].error # NULL
    /\ k \in DOMAIN tab
           => tab[k].status = "failed" /\ tab[k].error_message # NULL

\* C16: when the upload fails, for a drain as for a manual publish request,
\* the entry that was uploaded ends 'failed' with its error set, in memory
\* and in the Store.
C16_UploadFailureMarksFailed ==
    [][/\ \A db \in Outcomes :
              ManualUploadDone("fail", db)
                  => failedEverywhere(entries', schedule', manual.target)
       /\ \A d \in 1..MaxDrains :
              DrainUploadDone(d, "fail", "ok")
                  => failedEverywhere(entries', schedule', drains[d].target)]_vars

\* C17: pause changes the status of an entry only from 'scheduled' to
\* 'paused', and resume only from 'paused' to 'scheduled'; a 'failed' or
\* 'published' entry keeps its status.
C17_PauseResumeTransitions ==
    [][\A c \in ContentIds, db \in Outcomes :
          LET k == find(publishQueue, entries, c)
          IN  /\ PauseScheduledContent(c, db)
                     => \/ entries[k].status = "scheduled"
                        \/ entries'[k].status = entries[k].status
              /\ \A t \in {Nil, 35} :
                     ResumeScheduledContent(c, t, db)
                         => \/ entries[k].status = "paused"
                            \/ entries'[k].status = entries[k].status]_vars

\* The uploads that are in flight.
uploadsInFlight ==
    Cardinality({d \in 1..MaxDrains : drains[d].pc = "upload"})
        + (IF manual.pc = "upload" THEN 1 ELSE 0)

\* C10: at most one upload is in flight at any instant, over all
\* interleavings of the drains and the manual publish requests.
C10_OneUploadInFlight == uploadsInFlight <= 1

\* C22: an entry holds a youtubeId only while its status is 'published',
\* and an error only while its status is 'failed'.
C22_IdAndErrorMatchStatus ==
    \A k \in EntryKeys :
        /\ entries[k].youtubeId # NULL => entries[k].status = "published"
        /\ entries[k].error # NULL => entries[k].status = "failed"

\* The entry whose upload has just succeeded in this step, 0 when the step
\* is not the success of an upload.
uploadedNow ==
    IF manual.pc = "upload" /\ manual'.pc = "storeP" THEN manual.target
    ELSE IF \E d \in 1..MaxDrains :
                drains[d].pc = "upload" /\ drains'[d].pc = "storeP"
    THEN drains[CHOOSE d \in 1..MaxDrains :
                    drains[d].pc = "upload" /\ drains'[d].pc = "storeP"].target
    ELSE 0

\* C23: an upload succeeds only for a production item that no entry records
\* as uploaded already.
C23_UploadedAtMostOnce ==
    [][uploadedNow # 0 =>
          \A k \in EntryKeys :
              entries[k].productionId = entries[uploadedNow].productionId =>
                  entries[k].youtubeId = NULL]_vars

\* C25: every upload a drain started was for an entry that was 'scheduled'
\* when publishContent looked it up.
C25_DrainUploadsOnlyScheduled ==
    \A d \in 1..MaxDrains : \A n \in 1..Len(drains[d].log) :
        drains[d].log[n].target # 0 => drains[d].log[n].upStatus = "scheduled"

\* C26: the publish_time stored for a scheduled or paused entry is the
\* publishTime the entry has in memory.
C26_StoredTimeFollowsMemory ==
    \A k \in DOMAIN schedule :
        entries[k].status \in {"scheduled", "paused"} =>
            schedule[k].publish_time = entries[k].publishTime

\* C27: a restart puts every row stored as 'scheduled' back in the queue
\* with the productionId and publishTime of the row, and a drain that starts
\* after the restart selects every such entry whose time has come.
C27_ScheduledRowsSurviveRestart ==
    [][/\ (pipeline # <<>> /\ pipeline' = <<>>) =>
              \A k \in DOMAIN schedule :
                  schedule[k].status = "scheduled" =>
                      /\ k \in Range(publishQueue')
                      /\ entries'[k].productionId = schedule[k].production_id
                      /\ entries'[k].publishTime = schedule[k].publish_time
       /\ \A d \in 1..MaxDrains :
              (pipeline = <<>> /\ Free(d) /\ drains'[d] # drains[d]) =>
                  \A k \in Range(publishQueue) :
                      (/\ schedule[k].status = "scheduled"
                       /\ schedule[k].publish_time <= now) =>
                          k \in Range(drains'[d].ready)]_vars

\* An entry of the queue that is 'scheduled' and whose publishTime has come.
dueScheduled(k) ==
    /\ k <= Len(entries)
    /\ k \in Range(publishQueue)
    /\ entries[k].status = "scheduled"
    /\ entries[k].publishTime <= now

upcomingCount ==
    Cardinality({i \in 1..Len(publishQueue) :
                    /\ entries[publishQueue[i]].publishTime >= now
                    /\ entries[publishQueue[i]].publishTime <= now + 72})

\* C13: with an upcoming-schedule count of 3, shouldGenerateContentToday
\* returns false when the configured buffer is 3 and still returns false
\* when the buffer is lowered to 2; with a buffer of 4 and no recorded last
\* generation it returns true.
C13_BufferGate ==
    (gate.done /\ upcomingCount = 3) =>
        /\ settings.content_buffer_days \in {"2", "3"} => ~gate.result
        /\ (/\ settings.content_buffer_days = "4"
            /\ settings.last_content_generation = Nil) => gate.result

\* The statement as the scenario words it: false with a buffer of 3, true
\* with a buffer of 2.
C13_LowerBufferReturnsTrue ==
    (gate.done /\ upcomingCount = 3) =>
        /\ settings.content_buffer_days = "3" => ~gate.result
        /\ settings.content_buffer_days = "2" => gate.result

C13_Witness ==
    /\ gate.done
    /\ upcomingCount = 3
    /\ settings.content_buffer_days = "2"
    /\ ~gate.result

\* C11: no callback of a scheduled task ends with a rejection, and a task
\* whose body threw returns only with its failed event in automation_events.
C11_TaskFailuresRecorded ==
    \A s \in 1..MaxTasks :
        /\ tasks[s].pc # "rejected"
        /\ (tasks[s].pc = "returned" /\ tasks[s].threw) =>
               \E i \in 1..Len(automationEvents) :
                   automationEvents[i] =
                       [event_type |-> eventType(tasks[s].task),
                        status |-> "error"]

\* The days a posting frequency asks between two generations.
frequencyDays(frequency) ==
    CASE frequency = "every-2-days" -> 2
      [] frequency = "weekly"       -> 7
      [] OTHER                      -> 1

\* C14: a firing of the daily generation passes the gate only when every
\* item that an earlier run produced and scheduled was created at least the
\* configured posting frequency ago.
C14_FrequencyGateHolds ==
    [][\A s \in 1..MaxTasks :
          (tasks[s].pc = "gate" /\ tasks'[s].pc = "produce") =>
              \A k \in 1..Len(entries), i \in 1..Len(pipeline) :
                  (k \in DOMAIN schedule
                   /\ pipeline[i].id = entries[k].productionId) =>
                      (now - pipeline[i].timeline.created) \div 24 >=
                          frequencyDays(IF settings.posting_frequency = NULL
                                        THEN "daily"
                                        ELSE settings.posting_frequency)]_vars

(***************************************************************************)
(* Generation properties                                                   *)
(***************************************************************************)
\* The activation that produced item i still has its hand-off ahead.
handOffPending(i) ==
    \/ generate.item = i /\ generate.pc = "save"
    \/ \E s \in DOMAIN tasks : tasks[s].item = i /\ tasks[s].pc = "schedule"

\* C21: once the daily task or the manual request that produced a 'ready'
\* item is past its hand-off, the queue holds a 'scheduled' entry with the
\* item's id, priority and scheduledPublishTime.
C21_ReadyItemHandedToQueue ==
    \A i \in 1..Len(pipeline) :
        (pipeline[i].status = "ready" /\ ~handOffPending(i)) =>
            \E k \in 1..Len(entries) :
                /\ entries[k].productionId = pipeline[i].id
                /\ entries[k].status = "scheduled"
                /\ entries[k].priority = pipeline[i].priority
                /\ entries[k].publishTime = pipeline[i].scheduledPublishTime

\* C30: a manual generation request whose run reached 'ready' returns
\* without error, with the row of the item in the productions table.
C30_ManualGenerationSucceeds ==
    (generate.item # 0 /\ generate.pc # "save") =>
        /\ generate.pc = "returned"
        /\ pipeline[generate.item].status = "ready"
        /\ pipeline[generate.item].id \in DOMAIN productions

\* C24: two firings of the daily content-generation task are never past the
\* gate at the same time.
C24_NoOverlappingGeneration ==
    \A s, r \in DOMAIN tasks :
        (/\ s # r
         /\ tasks[s].task = "daily-content-generation"
         /\ tasks[r].task = "daily-content-generation"
         /\ tasks[s].pc \in {"produce", "schedule"})
            => tasks[r].pc \notin {"produce", "schedule"}

\* Slot s takes up the body of a task in this step.
bodyBegins(s) ==
    /\ tasks[s].pc \in {"idle", "returned", "rejected"}
    /\ tasks'[s].pc \in {"gate", "body"}

\* C29: a task body begins only while automation is enabled; a body that
\* began before automation was disabled runs on, and only such a body
\* creates a production item or queue entry while automation is disabled.
C29_NoBodyBeginsWhileDisabled ==
    [][/\ \A s \in 1..MaxTasks : bodyBegins(s) => automation.isEnabled
       /\ (~automation.isEnabled /\ pipeline' # pipeline) =>
              \E s \in 1..MaxTasks : tasks[s].pc = "produce"]_vars

\* The statement with its consequence: no body begins, and no production
\* item or queue entry is created, while automation is disabled.
C29_NothingHappensWhileDisabled ==
    [][/\ \A s \in 1..MaxTasks : bodyBegins(s) => automation.isEnabled
       /\ ~automation.isEnabled =>
              (pipeline' = pipeline /\ entries' = entries)]_vars

\* A started task fired while automation was paused, and its callback
\* returned without running the body.
C29_Witness ==
    /\ ~automation.isEnabled
    /\ automation.started
    /\ "database-maintenance" \in automation.fired
    /\ tasks[1] = [IdleTask EXCEPT !.task = "database-maintenance",
                                   !.pc = "returned"]

=============================================================================
